---- MODULE Spec2Model ----
(***************************************************************************)
(* Model of src/src/lib.rs: the JNI library that publishes a game client's *)
(* pose into the Mumble Link shared-memory record.                         *)
(*                                                                         *)
(* State: the POSIX shared-memory segment "/MumbleLink.<uid>" and the      *)
(* MumbleLink struct stored in it, the process-wide slot MUMBLE_LINK and   *)
(* its Mutex, the descriptors and mappings the process holds, stderr, and  *)
(* for every JVM thread the position inside the native call it is running. *)
(*                                                                         *)
(* Modelling conventions                                                   *)
(*  - a Java String is the sequence of its UTF-16 code units;              *)
(*  - a Java double is an integer (every integer below 2^53 is a double);  *)
(*    an f32 is the integer it denotes, so `as f32` is a real rounding;    *)
(*  - wchar_t is 32 bits wide (the target of nix::sys::mman is unix) and   *)
(*    integers are stored little-endian;                                   *)
(*  - a panic inside an extern "system" function ends the process.         *)
(***************************************************************************)
EXTENDS Integers, Sequences, FiniteSets, TLC

\* ------------------------------------------------------------ bounds ----
\* Number of native calls (init or update) the JVM threads make in a run.
MaxCalls == 3

\* The JVM threads that call into the library.
Threads == {1, 2}

\* ------------------------------------------------------ machine words ----
\* TLC's integers are 32-bit signed, so the u32 counter ui_tick is kept as its
\* two 16-bit halves <<high, low>>; HALF is the number of values of a half.
\* Every other u32 of the model stays below 2^31 and is a plain integer.
HALF == 65536

\* The largest u32 and zero.
U32_MAX == <<HALF - 1, HALF - 1>>
U32_ZERO == <<0, 0>>

\* (x + n) mod 2^32 for a u32 x and 0 <= n < 2^15, by adding with carry.
U32Add(x, n) ==
    LET lo == x[2] + n
    IN  <<(x[1] + (lo \div HALF)) % HALF, lo % HALF>>

\* Number of integers an f32 mantissa distinguishes (24 bits).
F32_MANTISSA == 16777216

RECURSIVE Pow2(_)
Pow2(n) == IF n = 0 THEN 1 ELSE 2 * Pow2(n - 1)

Abs(x) == IF x < 0 THEN 0 - x ELSE x

Min(a, b) == IF a < b THEN a ELSE b

\* Smallest e with m < 2^(24+e): the exponent by which m exceeds 24 bits.
RECURSIVE ExcessBits(_)
ExcessBits(m) == IF m < F32_MANTISSA THEN 0 ELSE 1 + ExcessBits(m \div 2)

\* `d as f32` for an integer-valued double: round to 24 significant bits,
\* ties to even.
AsF32(d) ==
    LET m    == Abs(d)
        e    == ExcessBits(m)
        unit == Pow2(e)
        q    == m \div unit
        r    == m % unit
        up   == (2 * r > unit) \/ (2 * r = unit /\ q % 2 = 1)
        mag  == (IF up THEN q + 1 ELSE q) * unit
    IN  IF d < 0 THEN 0 - mag ELSE mag

\* Byte k (0 = least significant) of a 32-bit word, little-endian storage.
ByteOf(w, k) == (w \div Pow2(8 * k)) % 256

WordOf(b0, b1, b2, b3) == b0 + 256 * b1 + 65536 * b2 + 16777216 * b3

\* ------------------------------------------------------------ strings ----
Rep(c, n) == [i \in 1..n |-> c]

\* JNI GetStringUTFChars (env.get_string): one UTF-16 code unit in Java's
\* modified UTF-8. U+0000 takes two bytes; a surrogate is encoded on its own.
ModUtf8Unit(c) ==
    IF c = 0 THEN <<192, 128>>
    ELSE IF c < 128 THEN <<c>>
    ELSE IF c < 2048 THEN <<192 + (c \div 64), 128 + (c % 64)>>
    ELSE <<224 + (c \div 4096), 128 + ((c \div 64) % 64), 128 + (c % 64)>>

\* The encoding of a string is the concatenation of its units' encodings
\* (computed by halves, which keeps the evaluation shallow).
RECURSIVE ModUtf8(_)
ModUtf8(s) ==
    IF s = <<>> THEN <<>>
    ELSE IF Len(s) = 1 THEN ModUtf8Unit(s[1])
    ELSE LET m == Len(s) \div 2
         IN  ModUtf8(SubSeq(s, 1, m)) \o ModUtf8(SubSeq(s, m + 1, Len(s)))

IsCont(b) == b >= 128 /\ b <= 191

REPLACEMENT == 65533

\* CStr::to_string_lossy = String::from_utf8_lossy on the bytes, decoded
\* from left to right: every maximal ill-formed part becomes U+FFFD. Modified
\* UTF-8 has no four-byte forms, so lead bytes F0..FF only occur as ill-formed
\* input.
RECURSIVE Utf8LossySeq(_)
Utf8LossySeq(b) ==
    IF b = <<>> THEN <<>>
    ELSE LET b0 == b[1]
             n  == Len(b)
             rest(k) == Utf8LossySeq(SubSeq(b, k + 1, n))
         IN  IF b0 < 128 THEN <<b0>> \o rest(1)
             ELSE IF b0 >= 194 /\ b0 <= 223
             THEN IF n >= 2 /\ IsCont(b[2])
                  THEN <<(b0 - 192) * 64 + (b[2] - 128)>> \o rest(2)
                  ELSE <<REPLACEMENT>> \o rest(1)
             ELSE IF b0 >= 224 /\ b0 <= 239
             THEN LET lo == IF b0 = 224 THEN 160 ELSE 128
                      hi == IF b0 = 237 THEN 159 ELSE 191
                  IN  IF n >= 2 /\ b[2] >= lo /\ b[2] <= hi
                      THEN IF n >= 3 /\ IsCont(b[3])
                           THEN <<(b0 - 224) * 4096 + (b[2] - 128) * 64 + (b[3] - 128)>>
                                    \o rest(3)
                           ELSE <<REPLACEMENT>> \o rest(2)
                      ELSE <<REPLACEMENT>> \o rest(1)
             ELSE <<REPLACEMENT>> \o rest(1)

\* The same decoding, computed by parts: the decoder never reads a byte that
\* is not a continuation byte as part of the sequence before it, so the input
\* can be cut in front of any such byte and the parts decoded on their own.
RECURSIVE Utf8Lossy(_)
Utf8Lossy(b) ==
    LET n == Len(b)
        m == n \div 2
        cuts == {p \in (m + 1)..Min(n, m + 3) : ~IsCont(b[p])}
    IN  IF n <= 8 \/ cuts = {} THEN Utf8LossySeq(b)
        ELSE LET p == CHOOSE c \in cuts : \A d \in cuts : c <= d
             IN  Utf8Lossy(SubSeq(b, 1, p - 1)) \o Utf8Lossy(SubSeq(b, p, n))

\* as_slice_with_nul of a WideCString.
WithNul(w) == w \o <<0>>

\* The bytes of a slice of u32, as memcpy reads them.
WideBytes(w) == [k \in 1..(4 * Len(w)) |-> ByteOf(w[((k - 1) \div 4) + 1], (k - 1) % 4)]

\* WideCString::from_str("Minecraft")
PLUGIN_NAME == <<77, 105, 110, 101, 99, 114, 97, 102, 116>>

\* WideCString::from_str("Mumble Link implementation for Lunar Client.")
PLUGIN_DESCRIPTION ==
    <<77, 117, 109, 98, 108, 101, 32, 76, 105, 110, 107, 32, 105, 109, 112, 108,
      101, 109, 101, 110, 116, 97, 116, 105, 111, 110, 32, 102, 111, 114, 32, 76,
      117, 110, 97, 114, 32, 67, 108, 105, 101, 110, 116, 46>>

\* ------------------------------------------------- the MumbleLink struct ----
NAME_LEN == 256
IDENTITY_LEN == 256
CONTEXT_CAP == 256
DESCRIPTION_LEN == 2048

\* Byte offsets of the #[repr(C)] fields (every field is 4-aligned or u8).
OffName == 4 + 4 + 3 * 12
OffIdentity == OffName + 4 * NAME_LEN + 3 * 12
OffContextLen == OffIdentity + 4 * IDENTITY_LEN
OffContext == OffContextLen + 4
OffDescription == OffContext + CONTEXT_CAP
MUMBLE_LINK_SIZE == OffDescription + 4 * DESCRIPTION_LEN

ZeroVec == <<0, 0, 0>>

Max(a, b) == IF a < b THEN b ELSE a

\* An array field of the struct is kept without its trailing zero elements:
\* <<77, 105>> stands for the array 77, 105, 0, 0, ... of the field's length.
\* At is the element i of the array.
At(a, i) == IF i <= Len(a) THEN a[i] ELSE 0

Trim(a) ==
    LET zeros == {i \in 1..Len(a) : \A j \in i..Len(a) : a[j] = 0}
    IN  SubSeq(a, 1, Len(a) - Cardinality(zeros))

\* The record as the OS hands it out: all bytes zero.
ZeroLink ==
    [ui_version |-> 0, ui_tick |-> U32_ZERO,
     avatar_position |-> ZeroVec, avatar_front |-> ZeroVec, avatar_top |-> ZeroVec,
     name |-> <<>>,
     camera_position |-> ZeroVec, camera_front |-> ZeroVec, camera_top |-> ZeroVec,
     identity |-> <<>>,
     context_len |-> 0,
     context |-> <<>>,
     description |-> <<>>]

\* The byte at offset p of the struct, for p from `identity` to the end.
MemByte(rec, p) ==
    IF p < OffContextLen
    THEN ByteOf(At(rec.identity, ((p - OffIdentity) \div 4) + 1), (p - OffIdentity) % 4)
    ELSE IF p < OffContext THEN ByteOf(rec.context_len, p - OffContextLen)
    ELSE IF p < OffDescription THEN At(rec.context, (p - OffContext) + 1)
    ELSE ByteOf(At(rec.description, ((p - OffDescription) \div 4) + 1),
                (p - OffDescription) % 4)

\* n bytes of the struct read from offset off on, across field boundaries.
ReadBytes(rec, off, n) == [k \in 1..n |-> MemByte(rec, off + k - 1)]

\* ptr::copy_nonoverlapping(src, dst, count) with dst at byte offset off of
\* the struct (off >= OffIdentity): Len(bytes) bytes are stored from dst on,
\* whatever field they land in. Bytes past the end of the struct fall into
\* the rest of the last mapped page and change no field.
Memcpy(rec, off, bytes) ==
    LET end == off + Len(bytes)
        nb(p) == IF p >= off /\ p < end THEN bytes[(p - off) + 1] ELSE MemByte(rec, p)
        hit(lo, hi) == off < hi /\ end > lo
        \* the array of `size`-byte elements at base .. limit after the copy
        arr(old, base, limit, size) ==
            IF ~hit(base, limit) THEN old
            ELSE LET last == ((Min(end, limit) - base) + (size - 1)) \div size
                 IN  Trim([i \in 1..Max(Len(old), last) |->
                             LET p == base + size * (i - 1)
                             IN  IF ~hit(p, p + size) THEN At(old, i)
                                 ELSE IF size = 1 THEN nb(p)
                                 ELSE WordOf(nb(p), nb(p + 1), nb(p + 2), nb(p + 3))])
    IN  [rec EXCEPT
          !.identity = arr(@, OffIdentity, OffContextLen, 4),
          !.context_len =
              IF hit(OffContextLen, OffContext)
              THEN WordOf(nb(OffContextLen), nb(OffContextLen + 1),
                          nb(OffContextLen + 2), nb(OffContextLen + 3))
              ELSE @,
          !.context = arr(@, OffContext, OffDescription, 1),
          !.description = arr(@, OffDescription, MUMBLE_LINK_SIZE, 4)]

\* memcpy of a constant that fits its field: elements 1..Len(w) of the field.
Overlay(field, w) ==
    Trim([i \in 1..Max(Len(field), Len(w)) |-> IF i <= Len(w) THEN w[i] ELSE At(field, i)])

\* ------------------------------------------------ the Java link_data ----
Vec(x, y, z) == [xCoord |-> x, yCoord |-> y, zCoord |-> z]

\* The MumbleVec fields of link_data in the order update_mumblelink reads
\* them, each with the struct field it is stored in.
VecFields ==
    << [java |-> "avatarPosition", field |-> "avatar_position"],
       [java |-> "avatarFront",    field |-> "avatar_front"],
       [java |-> "avatarTop",      field |-> "avatar_top"],
       [java |-> "cameraPosition", field |-> "camera_position"],
       [java |-> "cameraFront",    field |-> "camera_front"],
       [java |-> "cameraTop",      field |-> "camera_top"] >>

\* The link_data objects the game passes to update. Steve is an everyday
\* tick; Al has a shorter name, coordinates that need more than 24 bits, and
\* characters (U+0000, U+00E9) whose modified UTF-8 is longer than one byte;
\* Long has a player name and a context longer than the 256-unit fields.
Bundles ==
    { [id |-> "Steve",
       avatarPosition |-> Vec(11, 12, 13), avatarFront |-> Vec(21, 22, 23),
       avatarTop |-> Vec(31, 32, 33), cameraPosition |-> Vec(41, 42, 43),
       cameraFront |-> Vec(51, 52, 53), cameraTop |-> Vec(61, 62, 63),
       playerName |-> <<83, 116, 101, 118, 101>>,
       context |-> <<97, 98, 99>>],
      [id |-> "Al",
       avatarPosition |-> Vec(16777217, -12, 33554435), avatarFront |-> Vec(-21, 16777219, 23),
       avatarTop |-> Vec(0, 1, -1), cameraPosition |-> Vec(-41, -42, -43),
       cameraFront |-> Vec(151, 152, 153), cameraTop |-> Vec(161, 162, 163),
       playerName |-> <<65, 108>>,
       context |-> <<233, 0>>],
      [id |-> "Long",
       avatarPosition |-> Vec(1, 2, 3), avatarFront |-> Vec(4, 5, 6),
       avatarTop |-> Vec(7, 8, 9), cameraPosition |-> Vec(10, 11, 12),
       cameraFront |-> Vec(13, 14, 15), cameraTop |-> Vec(16, 17, 18),
       playerName |-> Rep(120, IDENTITY_LEN + 2),
       context |-> Rep(99, CONTEXT_CAP + 2)] }

NoBundle == [id |-> "none"]

\* ------------------------------------------------ update_mumblelink ----
\* The mutant of mumble_vec_to_float_slice that stores X Y Z.
mumble_vec_xyz(v) == <<AsF32(v.xCoord), AsF32(v.yCoord), AsF32(v.zCoord)>>

\* The result is X Z Y, each double narrowed to f32.
mumble_vec_to_float_slice(v) == <<AsF32(v.xCoord), AsF32(v.zCoord), AsF32(v.yCoord)>>

get_vec(link_data, name) == mumble_vec_to_float_slice(link_data[name])

\* The modified UTF-8 bytes of a String field of link_data.
get_jstring(link_data, name) == ModUtf8(link_data[name])

\* The characters WideCString::from_str receives.
get_widestring(link_data, name) == Utf8Lossy(get_jstring(link_data, name))

\* WideCString::from_str(..).unwrap() panics on an interior nul.
HasNul(w) == \E i \in 1..Len(w) : w[i] = 0

\* Lines 130-137: the one-time initialisation, write by write.
CopyPluginName(rec) == [rec EXCEPT !.name = Overlay(@, WithNul(PLUGIN_NAME))]
CopyPluginDescription(rec) ==
    [rec EXCEPT !.description = Overlay(@, WithNul(PLUGIN_DESCRIPTION))]
SetVersion(rec) == [rec EXCEPT !.ui_version = 2]

\* Line 140 when the addition does not overflow, or wraps.
Tick(rec) == [rec EXCEPT !.ui_tick = U32Add(@, 1)]

\* What `ui_tick += 1` does at u32::MAX: it wraps in a build without overflow
\* checks (cargo's release profile) and panics in a build with them (dev).
OverflowOutcomes == {"wrap", "panic"}

\* Lines 142-160: the k-th pose vector.
StoreVec(rec, k, link_data) ==
    [rec EXCEPT ![VecFields[k].field] = get_vec(link_data, VecFields[k].java)]

\* Mutant of StorePlayer: the player name goes to the first string field,
\* `name`, between the avatar and the camera vectors.
StorePlayerToName(rec, link_data) ==
    [rec EXCEPT !.name =
        Overlay(@, WithNul(get_widestring(link_data, "playerName")))]

\* Mutant of StorePlayer: the rest of `identity` after the terminator is
\* cleared.
StorePlayerClearing(rec, link_data) ==
    LET w == WithNul(get_widestring(link_data, "playerName"))
    IN  Memcpy(rec, OffIdentity,
               WideBytes([i \in 1..Max(IDENTITY_LEN, Len(w)) |-> At(w, i)]))

\* Lines 162-168: the name with its nul is copied to `identity`.
StorePlayer(rec, link_data) ==
    Memcpy(rec, OffIdentity,
           WideBytes(WithNul(get_widestring(link_data, "playerName"))))

\* Mutant of ContextBytes: the terminator is copied and counted too.
ContextBytesWithNul(link_data) == get_jstring(link_data, "context") \o <<0>>

\* Lines 170-172: context.to_bytes().
ContextBytes(link_data) == get_jstring(link_data, "context")

\* Lines 174-178.
StoreContext(rec, link_data) == Memcpy(rec, OffContext, ContextBytes(link_data))

\* Line 179.
StoreContextLen(rec, link_data) ==
    [rec EXCEPT !.context_len = Len(ContextBytes(link_data))]

RECURSIVE StoreVecs(_, _, _)
StoreVecs(rec, k, link_data) ==
    IF k = 0 THEN rec ELSE StoreVec(StoreVecs(rec, k - 1, link_data), k, link_data)

\* update_mumblelink run from start to end on rec with nothing in between.
update_mumblelink(rec, link_data) ==
    LET r0 == IF rec.ui_version # 2
              THEN SetVersion(CopyPluginDescription(CopyPluginName(rec)))
              ELSE rec
        r1 == Tick(r0)
        r2 == StoreVecs(r1, Len(VecFields), link_data)
        r3 == StorePlayer(r2, link_data)
        r4 == StoreContext(r3, link_data)
    IN  StoreContextLen(r4, link_data)

\* ------------------------------------------------------------- state ----
VARIABLES
    shm_exists,   \* whether the segment /MumbleLink.<uid> exists
    shm_size,     \* its size in bytes
    link,         \* the MumbleLink struct at the start of the segment
    MUMBLE_LINK,  \* the guarded Option: None, or the mapping it refers to
    mutex,        \* the thread holding the Mutex, or 0
    mappings,     \* number of mappings of the segment this process made
    open_fds,     \* number of descriptors of the segment this process holds
    stderr,       \* number of lines eprintln! has printed
    crashed,      \* the process was ended by a panic
    failed_at,    \* the field of link_data whose extraction failed, or 0
    calls,        \* native calls started so far
    pc,           \* per thread: where it is inside its native call
    arg,          \* per thread: the link_data of the update it runs
    ptr,          \* per thread: the mapping init_mumble_link made
    errno,        \* per thread: the error init_mumble_link returned
    ret,          \* per thread: what its last init returned
    entry         \* per thread: the struct as it was when update took the lock

\* failed_at and entry are history variables: the code keeps neither, and no
\* action reads them.

vars == <<shm_exists, shm_size, link, MUMBLE_LINK, mutex, mappings, open_fds,
          stderr, crashed, failed_at, calls, pc, arg, ptr, errno, ret, entry>>

os == <<shm_exists, shm_size, mappings, open_fds>>
locals == <<arg, ptr, errno, ret, entry>>
fate == <<crashed, failed_at>>

None == 0

\* entry[t] outside an update.
NoEntry == <<>>

\* ret[t]: the jint the thread's init returned, if it has returned.
NotReturned == <<>>
Returned(status) == <<status>>

\* Values ui_tick has when this process first maps the segment: a fresh
\* segment, and one a previous producer left just before the wrap.
StartTicks == {U32_ZERO, U32_MAX}

Init ==
    /\ shm_exists \in BOOLEAN
    /\ shm_size = IF shm_exists THEN MUMBLE_LINK_SIZE ELSE 0
    /\ \E t0 \in StartTicks :
          /\ shm_exists \/ t0 = U32_ZERO
          /\ link = [ZeroLink EXCEPT !.ui_tick = t0]
    /\ MUMBLE_LINK = None
    /\ mutex = 0
    /\ mappings = 0
    /\ open_fds = 0
    /\ stderr = 0
    /\ crashed = FALSE
    /\ failed_at = 0
    /\ calls = 0
    /\ pc = [t \in Threads |-> "idle"]
    /\ arg = [t \in Threads |-> NoBundle]
    /\ ptr = [t \in Threads |-> None]
    /\ errno = [t \in Threads |-> "none"]
    /\ ret = [t \in Threads |-> NotReturned]
    /\ entry = [t \in Threads |-> NoEntry]

Goto(t, label) == pc' = [pc EXCEPT ![t] = label]

\* A panic unwinding out of the extern "system" function: the process ends.
\* nr is the field of link_data whose extraction failed, 0 for other panics.
Panic(t, nr) ==
    /\ crashed' = TRUE
    /\ failed_at' = nr
    /\ Goto(t, "panicked")

\* ------------------------------------------- the external consumer ----
\* Mumble starts and creates the zero-filled segment at its full size.
ConsumerCreate ==
    /\ ~crashed
    /\ ~shm_exists
    /\ shm_exists' = TRUE
    /\ shm_size' = MUMBLE_LINK_SIZE
    /\ link' = ZeroLink
    /\ UNCHANGED <<MUMBLE_LINK, mutex, mappings, open_fds, stderr, fate, calls,
                   pc, locals>>

\* ------------------------------------------------ the JVM's calls ----
CallInit(t) ==
    /\ ~crashed
    /\ pc[t] = "idle"
    /\ calls < MaxCalls
    /\ calls' = calls + 1
    /\ Goto(t, "i_shm_open")
    /\ ret' = [ret EXCEPT ![t] = NotReturned]
    /\ UNCHANGED <<os, link, MUMBLE_LINK, mutex, stderr, fate, arg, ptr,
                   errno, entry>>

CallUpdate(t) ==
    /\ ~crashed
    /\ pc[t] = "idle"
    /\ calls < MaxCalls
    /\ calls' = calls + 1
    /\ \E b \in Bundles : arg' = [arg EXCEPT ![t] = b]
    /\ Goto(t, "u_lock")
    /\ ret' = [ret EXCEPT ![t] = NotReturned]
    /\ UNCHANGED <<os, link, MUMBLE_LINK, mutex, stderr, fate, ptr,
                   errno, entry>>

\* ---------------------------------------------- init_mumble_link ----
\* The flags of shm_open (line 69).
OpenFlagsWithCreate == {"O_RDWR", "O_CREAT"}

\* Mutant of OpenFlags: the segment is emptied when it is opened.
OpenFlagsWithTrunc == {"O_RDWR", "O_TRUNC"}

OpenFlags == {"O_RDWR"}

Fail(t, e) ==
    /\ errno' = [errno EXCEPT ![t] = e]
    /\ Goto(t, "i_err")

\* Lines 67-71: shm_open. A missing segment is ENOENT unless O_CREAT is given;
\* an existing one opens, or is refused (EACCES). O_TRUNC would cut an
\* existing segment to length 0, and the resize would bring it back zeroed.
InitShmOpen(t) ==
    /\ ~crashed
    /\ pc[t] = "i_shm_open"
    /\ \/ /\ ~shm_exists
          /\ "O_CREAT" \notin OpenFlags
          /\ Fail(t, "ENOENT")
          /\ UNCHANGED <<os, link>>
       \/ /\ ~shm_exists
          /\ "O_CREAT" \in OpenFlags
          /\ shm_exists' = TRUE
          /\ shm_size' = 0
          /\ link' = ZeroLink
          /\ open_fds' = open_fds + 1
          /\ Goto(t, "i_ftruncate")
          /\ UNCHANGED <<mappings, errno>>
       \/ /\ shm_exists
          /\ open_fds' = open_fds + 1
          /\ shm_size' = IF "O_TRUNC" \in OpenFlags THEN 0 ELSE shm_size
          /\ link' = IF "O_TRUNC" \in OpenFlags THEN ZeroLink ELSE link
          /\ Goto(t, "i_ftruncate")
          /\ UNCHANGED <<shm_exists, mappings, errno>>
       \/ /\ shm_exists
          /\ Fail(t, "EACCES")
          /\ UNCHANGED <<os, link>>
    /\ UNCHANGED <<MUMBLE_LINK, mutex, stderr, fate, calls, arg, ptr, ret,
                   entry>>

\* Line 73: ftruncate to MUMBLE_LINK_SIZE; on failure `?` returns at once.
InitFtruncate(t) ==
    /\ ~crashed
    /\ pc[t] = "i_ftruncate"
    /\ \/ /\ shm_size' = MUMBLE_LINK_SIZE
          /\ Goto(t, "i_mmap")
          /\ UNCHANGED errno
       \/ /\ Fail(t, "EINVAL")
          /\ UNCHANGED shm_size
    /\ UNCHANGED <<shm_exists, mappings, open_fds, link, MUMBLE_LINK, mutex, stderr,
                   fate, calls, arg, ptr, ret, entry>>

\* Lines 75-82: mmap; on failure `?` returns at once.
InitMmap(t) ==
    /\ ~crashed
    /\ pc[t] = "i_mmap"
    /\ \/ /\ mappings' = mappings + 1
          /\ ptr' = [ptr EXCEPT ![t] = mappings + 1]
          /\ Goto(t, "i_close")
          /\ UNCHANGED errno
       \/ /\ Fail(t, "ENOMEM")
          /\ UNCHANGED <<mappings, ptr>>
    /\ UNCHANGED <<shm_exists, shm_size, open_fds, link, MUMBLE_LINK, mutex, stderr,
                   fate, calls, arg, ret, entry>>

\* Line 84: close. The descriptor is released even when close reports an
\* error (EIO), as on Linux; on an error `?` returns without the mapping.
InitClose(t) ==
    /\ ~crashed
    /\ pc[t] = "i_close"
    /\ open_fds' = open_fds - 1
    /\ \/ /\ Goto(t, "i_lock")
          /\ UNCHANGED errno
       \/ Fail(t, "EIO")
    /\ UNCHANGED <<shm_exists, shm_size, mappings, link, MUMBLE_LINK, mutex, stderr,
                   fate, calls, arg, ptr, ret, entry>>

\* ------------------------- Java_com_moonsworth_client_mumble_MumbleLink_init ----
\* The jint returned for a failed attach.
InitErrStatusByErrno(e) == IF e = "ENOENT" THEN -1 ELSE -2

InitErrStatus(e) == -1

\* Mutant of Logs: every failure is printed.
LogsAlways(e) == TRUE

\* Whether the failure is printed (line 198).
Logs(e) == e # "ENOENT"

\* Whether the Mutex can be taken by a thread now.
CanLockAlways == TRUE

CanLock == mutex = 0

\* Mutant of InitLock: init goes on to store the link without the Mutex.
InitLockSkipped(t) ==
    /\ ~crashed
    /\ pc[t] = "i_lock"
    /\ Goto(t, "i_store")
    /\ UNCHANGED <<os, link, MUMBLE_LINK, mutex, stderr, fate, calls, locals>>

\* Lines 191-192: init_mumble_link has returned Ok; take the Mutex.
InitLock(t) ==
    /\ ~crashed
    /\ pc[t] = "i_lock"
    /\ CanLock
    /\ mutex' = t
    /\ Goto(t, "i_store")
    /\ UNCHANGED <<os, link, MUMBLE_LINK, stderr, fate, calls, locals>>

\* Lines 193-195: store the link, drop the guard, return 0. The mapping the
\* Option referred to before is not unmapped.
InitStore(t) ==
    /\ ~crashed
    /\ pc[t] = "i_store"
    /\ MUMBLE_LINK' = ptr[t]
    /\ mutex' = IF mutex = t THEN 0 ELSE mutex
    /\ ptr' = [ptr EXCEPT ![t] = None]
    /\ ret' = [ret EXCEPT ![t] = Returned(0)]
    /\ Goto(t, "idle")
    /\ UNCHANGED <<os, link, stderr, fate, calls, arg, errno, entry>>

\* Mutant of InitErr: a failed init also empties the stored Option.
InitErrClearing(t) ==
    /\ ~crashed
    /\ pc[t] = "i_err"
    /\ stderr' = IF Logs(errno[t]) THEN stderr + 1 ELSE stderr
    /\ ret' = [ret EXCEPT ![t] = Returned(InitErrStatus(errno[t]))]
    /\ errno' = [errno EXCEPT ![t] = "none"]
    /\ ptr' = [ptr EXCEPT ![t] = None]
    /\ MUMBLE_LINK' = None
    /\ Goto(t, "idle")
    /\ UNCHANGED <<os, link, mutex, fate, calls, arg, entry>>

\* Lines 196-202: print the errno unless it is ENOENT, return -1. The mapping
\* a failed close leaves behind is dropped with the locals.
InitErr(t) ==
    /\ ~crashed
    /\ pc[t] = "i_err"
    /\ stderr' = IF Logs(errno[t]) THEN stderr + 1 ELSE stderr
    /\ ret' = [ret EXCEPT ![t] = Returned(InitErrStatus(errno[t]))]
    /\ errno' = [errno EXCEPT ![t] = "none"]
    /\ ptr' = [ptr EXCEPT ![t] = None]
    /\ Goto(t, "idle")
    /\ UNCHANGED <<os, link, MUMBLE_LINK, mutex, fate, calls, arg, entry>>

\* ----------------------- Java_com_moonsworth_client_mumble_MumbleLink_update ----
\* Mutant of OnNone: an update without a link returns without doing anything.
OnNoneReturn(t) ==
    /\ Goto(t, "idle")
    /\ UNCHANGED <<fate, mutex>>

\* Line 214: expect("MumbleLink is None") panics, the guard still held.
OnNone(t) ==
    /\ Panic(t, 0)
    /\ mutex' = t

\* Lines 212-214 and the test of line 127: take the lock, expect a link, and
\* enter update_mumblelink.
UpdateLock(t) ==
    /\ ~crashed
    /\ pc[t] = "u_lock"
    /\ CanLock
    /\ \/ /\ MUMBLE_LINK = None
          /\ OnNone(t)
          /\ UNCHANGED entry
       \/ /\ MUMBLE_LINK # None
          /\ mutex' = t
          /\ entry' = [entry EXCEPT ![t] = link]
          /\ Goto(t, IF link.ui_version # 2 THEN "u_copy_name" ELSE "u_tick")
          /\ UNCHANGED fate
    /\ UNCHANGED <<os, link, MUMBLE_LINK, stderr, calls, arg, ptr, errno, ret>>

\* A step of update_mumblelink that stores into the struct and goes on.
Write(t, from, rec, to) ==
    /\ ~crashed
    /\ pc[t] = from
    /\ link' = rec
    /\ Goto(t, to)
    /\ UNCHANGED <<os, MUMBLE_LINK, mutex, stderr, fate, calls, locals>>

\* A `?` of update_mumblelink on a JNIError reading field number nr of
\* link_data: the caller panics (line 217).
ExtractionFails(t, from, nr) ==
    /\ ~crashed
    /\ pc[t] = from
    /\ Panic(t, nr)
    /\ UNCHANGED <<os, link, MUMBLE_LINK, mutex, stderr, calls, locals>>

UpdateCopyName(t) ==
    Write(t, "u_copy_name", CopyPluginName(link), "u_copy_description")

UpdateCopyDescription(t) ==
    Write(t, "u_copy_description", CopyPluginDescription(link), "u_set_version")
       

UpdateSetVersion(t) ==
    Write(t, "u_set_version", SetVersion(link), "u_tick")

\* Line 140.
UpdateTick(t) ==
    /\ ~crashed
    /\ pc[t] = "u_tick"
    /\ \/ /\ link.ui_tick # U32_MAX \/ "wrap" \in OverflowOutcomes
          /\ link' = Tick(link)
          /\ Goto(t, "u_vecs")
          /\ UNCHANGED fate
       \/ /\ link.ui_tick = U32_MAX /\ "panic" \in OverflowOutcomes
          /\ Panic(t, 0)
          /\ UNCHANGED link
    /\ UNCHANGED <<os, MUMBLE_LINK, mutex, stderr, calls, arg, ptr, errno, ret, entry>>

\* Lines 142-160: get_vec and copy_from_slice, vector after vector. Either
\* all six are stored, or the JNI reads of vector number k fail: the vectors
\* before it are stored and the `?` returns.
UpdateVecs(t) ==
    /\ pc[t] = "u_vecs"
    /\ \E k \in 0..Len(VecFields) :
          IF k = 0
          THEN Write(t, "u_vecs", StoreVecs(link, Len(VecFields), arg[t]), "u_player")
          ELSE /\ ~crashed
               /\ link' = StoreVecs(link, k - 1, arg[t])
               /\ Panic(t, k)
               /\ UNCHANGED <<os, MUMBLE_LINK, mutex, stderr, calls, locals>>

\* Lines 162-168: get_widestring fails on a JNIError and panics (unwrap,
\* line 117) on an interior nul; otherwise the name is copied.
UpdatePlayer(t) ==
    /\ pc[t] = "u_player"
    /\ \E jni_ok \in BOOLEAN :
          IF jni_ok /\ ~HasNul(get_widestring(arg[t], "playerName"))
          THEN /\ Write(t, "u_player", StorePlayer(link, arg[t]), "u_context")
              
          ELSE ExtractionFails(t, "u_player", Len(VecFields) + 1)

\* Lines 170-178.
UpdateContext(t) ==
    /\ pc[t] = "u_context"
    /\ \E jni_ok \in BOOLEAN :
          IF jni_ok
          THEN /\ Write(t, "u_context", StoreContext(link, arg[t]), "u_context_len")
              
          ELSE ExtractionFails(t, "u_context", Len(VecFields) + 2)

\* Line 179.
UpdateContextLen(t) ==
    Write(t, "u_context_len", StoreContextLen(link, arg[t]), "u_done")

\* Lines 181 and 219: Ok(()), the guard is dropped, the call returns.
UpdateReturn(t) ==
    /\ ~crashed
    /\ pc[t] = "u_done"
    /\ mutex' = 0
    /\ Goto(t, "idle")
    /\ arg' = [arg EXCEPT ![t] = NoBundle]
    /\ entry' = [entry EXCEPT ![t] = NoEntry]
    /\ UNCHANGED <<os, link, MUMBLE_LINK, stderr, fate, calls, ptr, errno, ret>>

Next ==
    \/ ConsumerCreate
    \/ \E t \in Threads : CallInit(t)
    \/ \E t \in Threads : CallUpdate(t)
    \/ \E t \in Threads : InitShmOpen(t)
    \/ \E t \in Threads : InitFtruncate(t)
    \/ \E t \in Threads : InitMmap(t)
    \/ \E t \in Threads : InitClose(t)
    \/ \E t \in Threads : InitLock(t)
    \/ \E t \in Threads : InitStore(t)
    \/ \E t \in Threads : InitErr(t)
    \/ \E t \in Threads : UpdateLock(t)
    \/ \E t \in Threads : UpdateCopyName(t)
    \/ \E t \in Threads : UpdateCopyDescription(t)
    \/ \E t \in Threads : UpdateSetVersion(t)
    \/ \E t \in Threads : UpdateTick(t)
    \/ \E t \in Threads : UpdateVecs(t)
    \/ \E t \in Threads : UpdatePlayer(t)
    \/ \E t \in Threads : UpdateContext(t)
    \/ \E t \in Threads : UpdateContextLen(t)
    \/ \E t \in Threads : UpdateReturn(t)

Spec == Init /\ [][Next]_vars

\* ------------------------------------------------------------- claims ----
\* The labels of a field-write pass of update_mumblelink.
PassLabels == {"u_copy_name", "u_copy_description", "u_set_version", "u_tick",
               "u_vecs", "u_player", "u_context", "u_context_len", "u_done"}

InPass(t) == pc[t] \in PassLabels

\* Thread t takes a step of its native call.
Steps(t) == pc'[t] # pc[t]

\* The wide string update copies for the player name of link_data.
WideName(link_data) == Utf8Lossy(ModUtf8(link_data.playerName))

\* C1: an update that finds no stored link (MUMBLE_LINK is None) panics: it
\* ends the process, does not return, and changes no field of the record;
\* no field-write pass ever runs without a stored link.
C1_UpdateWithoutLinkPanics ==
    [][ /\ \A t \in Threads :
             (pc[t] = "u_lock" /\ Steps(t) /\ MUMBLE_LINK = None)
                 => (crashed' /\ pc'[t] = "panicked" /\ link' = link)
        /\ \A t \in Threads : InPass(t)' => MUMBLE_LINK' # None
        /\ crashed => UNCHANGED vars ]_vars

\* C1 witness: the process ended in update's expect, with no link stored.
C1_Witness ==
    \E t \in Threads :
        crashed /\ pc[t] = "panicked" /\ MUMBLE_LINK = None /\ mutex = t

\* C2 (as claimed): every update adds one to ui_tick modulo 2^32 and goes on;
\* at 2^32 - 1 it completes normally and leaves 0.
C2_TickAddsOneAndWraps ==
    [][ \A t \in Threads :
            (pc[t] = "u_tick" /\ Steps(t))
                => (~crashed' /\ link'.ui_tick = U32Add(link.ui_tick, 1)) ]_vars

\* C3 (as claimed): ui_version is 0 or 2; the first update on a zeroed record
\* sets it to 2; and an update that starts with ui_version = 2 ends with it
\* still 2 and with the static name and description exactly as they were at
\* its start, that is, as the first update left them.
C3_VersionAndStaticsWriteOnce ==
    /\ link.ui_version \in {0, 2}
    /\ \A t \in Threads :
          pc[t] = "u_done" =>
              /\ link.ui_version = 2
              /\ entry[t].ui_version = 2
                    => /\ link.name = entry[t].name
                       /\ link.description = entry[t].description

\* The stored vectors once update_mumblelink is past them.
PastVecs(t) == pc[t] \in {"u_player", "u_context", "u_context_len", "u_done"}

\* C4 (as claimed): each stored pose vector is exactly (x, z, y) of its own
\* input vector.
C4_VectorsExactXZY ==
    \A t \in Threads :
        PastVecs(t) =>
            \A k \in 1..Len(VecFields) :
                LET v == arg[t][VecFields[k].java]
                IN  link[VecFields[k].field] = <<v.xCoord, v.zCoord, v.yCoord>>

\* C4 (amended): each stored pose vector is (x, z, y) of its own input
\* vector, each component narrowed from the double to an f32.
C4_VectorsNarrowedXZY ==
    \A t \in Threads :
        PastVecs(t) =>
            \A k \in 1..Len(VecFields) :
                LET v == arg[t][VecFields[k].java]
                IN  link[VecFields[k].field] =
                        <<AsF32(v.xCoord), AsF32(v.zCoord), AsF32(v.yCoord)>>

\* C4 witness: an update has stored vectors whose components do not fit the
\* 24 bits of an f32.
C4_Witness ==
    \E t \in Threads :
        /\ pc[t] = "u_done"
        /\ arg[t].id = "Al"
        /\ link.avatar_position = <<16777216, 33554436, -12>>

\* C5: when an update has finished its writes, context_len is the number of
\* bytes of the context string as JNI hands it over, without a terminator,
\* and that many bytes read from the start of `context` are those bytes.
C5_ContextLenAndBytes ==
    \A t \in Threads :
        pc[t] = "u_done" =>
            /\ link.context_len = Len(ModUtf8(arg[t].context))
            /\ ReadBytes(link, OffContext, link.context_len) = ModUtf8(arg[t].context)

\* C5 witness: an update finished with a context of two characters that take
\* four bytes, after an earlier update with a longer context whose bytes are
\* still behind them.
C5_Witness ==
    \E t \in Threads :
        /\ pc[t] = "u_done"
        /\ arg[t].id = "Al"
        /\ link.context_len = 4
        /\ At(link.context, 5) = 99

\* C6 (as claimed): the status init returns after an OS failure other than a
\* missing segment differs from the status it returns for a missing segment.
C6_ErrorStatusDiffersFromNotAvailable ==
    [][ \A t \in Threads :
            (pc[t] = "i_err" /\ Steps(t) /\ errno[t] # "ENOENT")
                => ret'[t] # Returned(InitErrStatus("ENOENT")) ]_vars

\* C6 (amended): init returns 0 when the attach succeeds and -1 when it
\* fails, whatever the errno.
C6_TwoStatuses ==
    [][ \A t \in Threads :
            /\ (pc[t] = "i_store" /\ Steps(t)) => ret'[t] = Returned(0)
            /\ (pc[t] = "i_err" /\ Steps(t)) => ret'[t] = Returned(-1) ]_vars

\* C6 witness: the only call so far was an init that failed with an errno
\* other than ENOENT (it was printed) and returned -1.
C6_Witness ==
    \E t \in Threads : calls = 1 /\ pc[t] = "idle" /\ ret[t] = Returned(-1) /\ stderr = 1

\* C7 (as claimed): after an update the first string field (`name`) holds the
\* player name followed by a nul, and the second (`identity`) is as it was.
C7_PlayerNameInFirstField ==
    \A t \in Threads :
        pc[t] = "u_done" =>
            LET w == WithNul(WideName(arg[t]))
            IN  /\ \A i \in 1..Min(NAME_LEN, Len(w)) : At(link.name, i) = w[i]
                /\ link.identity = entry[t].identity

\* C7 (amended): after an update the second string field (`identity`, after
\* the camera vectors) begins with the player name followed by a nul, cut at
\* the field's 256 units; the first (`name`) is as it was before the update
\* unless this update ran the one-time initialisation, which put the
\* application name there.
C7_PlayerNameInIdentity ==
    \A t \in Threads :
        pc[t] = "u_done" =>
            LET w == WithNul(WideName(arg[t]))
            IN  /\ \A i \in 1..Min(IDENTITY_LEN, Len(w)) : At(link.identity, i) = w[i]
                /\ link.name = IF entry[t].ui_version = 2
                               THEN entry[t].name
                               ELSE Overlay(entry[t].name, WithNul(PLUGIN_NAME))

\* C7 witness: an update with the player name "Steve" has finished.
C7_Witness ==
    \E t \in Threads :
        /\ pc[t] = "u_done"
        /\ arg[t].id = "Steve"
        /\ link.identity = <<83, 116, 101, 118, 101>>
        /\ link.name = PLUGIN_NAME

\* C8 (as claimed): after an update no unit that was in `identity` before it
\* is still there behind the new name's terminator.
C8_NoResidueAfterTerminator ==
    \A t \in Threads :
        pc[t] = "u_done" =>
            \A i \in (Len(WideName(arg[t])) + 2)..IDENTITY_LEN :
                At(entry[t].identity, i) # 0
                    => At(link.identity, i) # At(entry[t].identity, i)

\* C8 (amended): an update writes the name and its terminator and nothing
\* else of `identity`: every unit behind the terminator is as it was before.
C8_TailUnchanged ==
    \A t \in Threads :
        pc[t] = "u_done" =>
            \A i \in (Len(WideName(arg[t])) + 2)..IDENTITY_LEN :
                At(link.identity, i) = At(entry[t].identity, i)

\* C8 witness: "Al" was written over "Steve"; the field reads A l nul v e.
C8_Witness ==
    \E t \in Threads :
        /\ pc[t] = "u_done"
        /\ arg[t].id = "Al"
        /\ link.identity = <<65, 108, 0, 118, 101>>

\* C9: the Mutex is held by the thread inside a field-write pass, so at most
\* one thread is inside one, and at the end of a pass the record is the one
\* update_mumblelink makes of the record the pass started from: the passes
\* of concurrent updates run one after another, each adding one to ui_tick.
C9_PassesAreSerial ==
    /\ \A t \in Threads : InPass(t) => mutex = t
    /\ \A t \in Threads :
          pc[t] = "u_done" =>
              /\ link = update_mumblelink(entry[t], arg[t])
              /\ link.ui_tick = U32Add(entry[t].ui_tick, 1)

\* C9 witness: one thread is at the end of its pass, the Mutex still held,
\* while the other waits for the Mutex with another update.
C9_Witness ==
    \E t, u \in Threads :
        /\ t # u
        /\ pc[t] = "u_done"
        /\ mutex = t
        /\ pc[u] = "u_lock"
        /\ arg[u].id # arg[t].id

\* C10: no step of init or update creates or removes the segment; shm_open on
\* a missing segment fails with ENOENT, and init then returns -1 and prints
\* nothing.
C10_NeverCreatesOrDeletes ==
    [][ (\E t \in Threads : Steps(t)) =>
          /\ shm_exists' = shm_exists
          /\ \A t \in Threads :
                (pc[t] = "i_shm_open" /\ Steps(t) /\ ~shm_exists)
                    => (pc'[t] = "i_err" /\ errno'[t] = "ENOENT")
          /\ \A t \in Threads :
                (pc[t] = "i_err" /\ Steps(t) /\ errno[t] = "ENOENT")
                    => (ret'[t] = Returned(-1) /\ stderr' = stderr) ]_vars

\* C10 witness: init has returned -1 without printing and the segment is
\* still missing.
C10_Witness ==
    \E t \in Threads :
        pc[t] = "idle" /\ ret[t] = Returned(-1) /\ stderr = 0 /\ ~shm_exists /\ open_fds = 0

\* The labels of an init call.
InitLabels == {"i_shm_open", "i_ftruncate", "i_mmap", "i_close", "i_lock",
               "i_store", "i_err"}

InInit(t) == pc[t] \in InitLabels

\* C11: init can be called at any point and always starts a fresh attach at
\* shm_open; no step of an init changes a field of the record; a successful
\* init stores the mapping it has just made, which is never the one stored
\* before, and returns 0; so an update that finds ui_version = 2 goes straight
\* to the tick without rewriting the version or the static strings, and the
\* tick it leaves is the one it found plus one.
C11_RepeatedInitKeepsRecord ==
    [][ /\ \A t \in Threads :
             (pc[t] = "idle" /\ InInit(t)') => pc'[t] = "i_shm_open"
        /\ \A t \in Threads : (InInit(t) /\ Steps(t)) => link' = link
        /\ \A t \in Threads :
             (pc[t] = "i_store" /\ Steps(t))
                 => /\ ptr[t] # None
                    /\ ptr[t] # MUMBLE_LINK
                    /\ MUMBLE_LINK' = ptr[t]
                    /\ ret'[t] = Returned(0)
        /\ \A t \in Threads :
             (pc[t] = "u_lock" /\ Steps(t) /\ MUMBLE_LINK # None /\ link.ui_version = 2)
                 => (pc'[t] = "u_tick" /\ link' = link)
        /\ \A t \in Threads :
             (pc[t] = "u_tick" /\ Steps(t) /\ ~crashed')
                 => link' = [link EXCEPT !.ui_tick = U32Add(link.ui_tick, 1)] ]_vars

\* C11 witness: a second init has succeeded after an update wrote the record:
\* the second mapping is stored and the record still holds what the update
\* left (version 2, tick 1, the static name, the player name).
C11_Witness ==
    /\ \A t \in Threads : pc[t] = "idle"
    /\ \E t \in Threads : ret[t] = Returned(0)
    /\ mappings = 2
    /\ MUMBLE_LINK = 2
    /\ link.ui_version = 2
    /\ link.ui_tick = <<0, 1>>
    /\ link.name = PLUGIN_NAME
    /\ link.identity = <<83, 116, 101, 118, 101>>

\* C12: init prints a line exactly when it fails with an errno other than
\* ENOENT: the Err arm prints one line for any other errno and none for
\* ENOENT, no other step of any call prints, a successful init prints nothing,
\* and the errno is ENOENT exactly when shm_open found no segment.
C12_LogsExactlyOtherErrors ==
    [][ /\ \A t \in Threads :
             (pc[t] = "i_err" /\ Steps(t))
                 => stderr' = IF errno[t] = "ENOENT" THEN stderr ELSE stderr + 1
        /\ (\A t \in Threads : ~(pc[t] = "i_err" /\ Steps(t))) => stderr' = stderr
        /\ \A t \in Threads :
             (InInit(t) /\ pc'[t] = "i_err" /\ Steps(t))
                 => (errno'[t] = "ENOENT" <=> (pc[t] = "i_shm_open" /\ ~shm_exists)) ]_vars

\* C12 witness: two inits have failed, one with ENOENT and one with another
\* errno, and one line has been printed.
C12_Witness ==
    /\ calls = 2
    /\ \A t \in Threads : pc[t] = "idle" /\ ret[t] = Returned(-1)
    /\ MUMBLE_LINK = None
    /\ open_fds = 0
    /\ mappings = 0
    /\ stderr = 1

\* The static strings with their terminators are in their fields.
StaticsPresent(rec) ==
    /\ \A i \in 1..Len(WithNul(PLUGIN_NAME)) :
          At(rec.name, i) = WithNul(PLUGIN_NAME)[i]
    /\ \A i \in 1..Len(WithNul(PLUGIN_DESCRIPTION)) :
          At(rec.description, i) = WithNul(PLUGIN_DESCRIPTION)[i]

\* C13 (as claimed): in every state, also in the middle of an update,
\* ui_version = 2 implies that the static name and description are completely
\* in their fields.
C13_VersionImpliesStatics ==
    link.ui_version = 2 => StaticsPresent(link)

\* C14 (as claimed): when the extraction of field number k of link_data
\* fails (1..6 the vectors, 7 playerName, 8 context), the process has ended
\* and the record is left in between: the one-time initialisation is done
\* and ui_tick is one more than at the start of the call, the vectors before
\* the k-th and, for k = 8, the player name hold the new values, and the k-th
\* and all later fields, context and context_len among them, hold the values
\* they had before the call.
C14_PartialUpdate ==
    \A t \in Threads :
        (pc[t] = "panicked" /\ failed_at >= 1) =>
            LET k == failed_at
                e == entry[t]
                w == WithNul(WideName(arg[t]))
                r0 == IF e.ui_version # 2
                      THEN CopyPluginDescription(CopyPluginName(e))
                      ELSE e
            IN  /\ crashed
                /\ link.ui_version = 2
                /\ link.name = r0.name
                /\ link.description = r0.description
                /\ link.ui_tick = U32Add(e.ui_tick, 1)
                /\ \A i \in 1..Len(VecFields) :
                      link[VecFields[i].field] =
                          IF i < k THEN get_vec(arg[t], VecFields[i].java)
                          ELSE e[VecFields[i].field]
                /\ IF k <= Len(VecFields) + 1
                   THEN link.identity = e.identity
                   ELSE \A i \in 1..Min(IDENTITY_LEN, Len(w)) :
                            At(link.identity, i) = w[i]
                /\ link.context = e.context
                /\ link.context_len = e.context_len

\* C15 (as claimed): no step of an init call is taken while another thread
\* is inside a field-write pass, and no pass begins while another thread is
\* inside an init call.
C15_InitExcludesUpdate ==
    [][ \A t, u \in Threads :
            /\ (InInit(t) /\ Steps(t)) => ~InPass(u)
            /\ (pc[u] = "u_lock" /\ InPass(u)') => ~InInit(t) ]_vars

\* C15 (amended): the Mutex covers the replacement of the stored link and
\* nothing else of init. The thread that replaces it holds the Mutex, as
\* does the thread inside a field-write pass, so the link is never replaced
\* during a pass and no pass begins while an init holds the Mutex; only that
\* step changes the stored link. Opening, resizing, mapping and closing take
\* no lock.
C15_StoreExcludesPass ==
    [][ /\ \A t \in Threads : pc[t] = "i_store" => mutex = t
        /\ \A t, u \in Threads : pc[t] = "i_store" => ~InPass(u)
        /\ \A t, u \in Threads :
              (pc[u] = "u_lock" /\ InPass(u)') => (mutex = 0 /\ pc[t] # "i_store")
        /\ MUMBLE_LINK' # MUMBLE_LINK
              => \E t \in Threads : pc[t] = "i_store" /\ Steps(t) /\ mutex = t
        /\ \A t \in Threads :
              (pc[t] \in InitLabels \ {"i_lock", "i_store"} /\ Steps(t))
                  => mutex' = mutex ]_vars

\* C15 witness: an init holds the Mutex to replace the link an earlier init
\* stored, while an update in the other thread waits for the Mutex.
C15_Witness ==
    \E t, u \in Threads :
        /\ pc[t] = "i_store"
        /\ mutex = t
        /\ MUMBLE_LINK # None
        /\ ptr[t] # MUMBLE_LINK
        /\ pc[u] = "u_lock"

\* C16: a failing init leaves the stored link as it is: neither the step on
\* which init_mumble_link fails nor the Err arm changes MUMBLE_LINK, and the
\* call returns -1; once a link is stored the Option is never None again; and
\* an update that finds a link stored enters its field-write pass instead of
\* panicking, whatever inits failed before.
C16_FailedInitKeepsHandle ==
    [][ /\ \A t \in Threads :
             (InInit(t) /\ Steps(t) /\ pc'[t] = "i_err") => MUMBLE_LINK' = MUMBLE_LINK
        /\ \A t \in Threads :
             (pc[t] = "i_err" /\ Steps(t))
                 => (MUMBLE_LINK' = MUMBLE_LINK /\ ret'[t] = Returned(-1))
        /\ MUMBLE_LINK # None => MUMBLE_LINK' # None
        /\ \A t \in Threads :
             (pc[t] = "u_lock" /\ Steps(t) /\ MUMBLE_LINK # None)
                 => (InPass(t)' /\ ~crashed') ]_vars

\* C16 witness: one thread's init failed after it had mapped the segment (a
\* second mapping exists, a line was printed, -1 was returned), the link of
\* the first mapping is still stored, and an update has run its pass to the
\* end against it.
C16_Witness ==
    \E t, u \in Threads :
        /\ pc[u] = "idle"
        /\ ret[u] = Returned(-1)
        /\ stderr = 1
        /\ mappings = 2
        /\ MUMBLE_LINK = 1
        /\ pc[t] = "u_done"
        /\ link.ui_tick = U32Add(entry[t].ui_tick, 1)

\* C17 (as claimed): an update stays inside the fields it marshals. Once the
\* player name is copied, context_len, context and description are as they
\* were before the copy; once the context is copied, description still is;
\* and context_len is never more than the 256 bytes of `context`.
C17_CopiesStayInTheirFields ==
    /\ link.context_len <= CONTEXT_CAP
    /\ \A t \in Threads :
          LET e == entry[t]
              d == IF e.ui_version # 2 THEN CopyPluginDescription(e).description
                   ELSE e.description
          IN  /\ pc[t] = "u_context"
                    => /\ link.context_len = e.context_len
                       /\ link.context = e.context
                       /\ link.description = d
              /\ pc[t] \in {"u_context_len", "u_done"} => link.description = d

\* C18 (as claimed): when no init call is running the process holds no
\* descriptor of the segment, and an init call fails only without a mapping
\* and stores a link only with one: the link is stored exactly when the
\* mapping was made.
C18_DescriptorsClosedHandleIffMapped ==
    /\ (\A t \in Threads : ~InInit(t)) => open_fds = 0
    /\ \A t \in Threads : pc[t] = "i_err" => ptr[t] = None
    /\ \A t \in Threads : pc[t] = "i_store" => ptr[t] # None
====
